---- MODULE Spec2Model ----
(***************************************************************************)
(* A model of src/index.tsx: the wrong-question notebook (错题复盘助手).    *)
(*                                                                         *)
(* The React application is modelled as a state machine.  Every event      *)
(* handler runs to completion and React applies the state updates it       *)
(* queued in one commit, so each handler is one action.  The asynchronous  *)
(* operations (FileReader, the two generateContent calls) are split at     *)
(* their await: the part before is one action, the continuation another,   *)
(* with the call in flight recorded in `pending`.                          *)
(*                                                                         *)
(* JavaScript strings that the program only stores and compares are TLA+   *)
(* strings.  SANY accepts ASCII only, so the Chinese literals of the       *)
(* source are transliterated; the original is given in a comment.  Strings *)
(* the program builds or parses (the id, the period key) are sequences of  *)
(* tokens.  null is Null for strings and <<>> for a nullable number (a     *)
(* present number n is <<n>>).                                             *)
(*                                                                         *)
(* Date.now() is `now`, in milliseconds counted from the local midnight    *)
(* that starts the date Epoch (TLC's integers are 32 bit). *)
(***************************************************************************)
EXTENDS Integers, Sequences, FiniteSets, Bags

VARIABLES
    activeTab,   \* App: 'dashboard' | 'add' | 'review'
    questions,   \* App: Question[]
    storage,     \* localStorage slot STORAGE_KEY
    loaded,      \* App: the mount effect (loadQuestions) has run
    now,         \* the value Date.now() returned last
    apiKey,      \* process.env.API_KEY is set
    add,         \* the state of the mounted AddQuestion component
    pending,     \* bag of asynchronous operations of AddQuestion in flight
    review,      \* the state of the mounted ReviewMode component
    advances     \* history: <<k>> when the session on screen has seen k
                 \* handleNext calls since it started and no 上一题 or 退出,
                 \* <<>> otherwise

vars == <<activeTab, questions, storage, loaded, now, apiKey, add, pending, review,
          advances>>

-----------------------------------------------------------------------------
(* Bounds of the model *)

\* at most this many questions are saved
MaxQuestions == 2
\* the clock advances at most this many times
MaxTicks == 1
\* handleNext is not taken on a question reviewed this many times
MaxReviews == 2
\* at most this many asynchronous operations are in flight
MaxPending == 2
MaxCaptured == 1
\* the questions a store left by earlier use holds at most
MaxStored == 3

-----------------------------------------------------------------------------
(* Constants of the program *)

Null == "null"

\* '职测' and '综应'
Subjects == {"zhice", "zongying"}

\* CATEGORIES: 职测 -> 言语理解与表达, 数量关系, 判断推理, 资料分析, 常识判断;
\*             综应 -> 综合应用-案例分析, 综合应用-文书写作
CATEGORIES(subject) ==
    IF subject = "zhice"
    THEN <<"yanyu", "shuliang", "panduan", "ziliao", "changshi">>
    ELSE <<"anli", "wenshu">>

Range(s) == {s[i] : i \in DOMAIN s}

\* milliseconds in a day, as Date counts them
DayMs == 24 * 60 * 60 * 1000

\* the local date at whose midnight the model's clock reads 0
Epoch == [year |-> 2024, month |-> 12, date |-> 15]

-----------------------------------------------------------------------------
(* Date: the civil calendar of new Date(ts), in local time *)

DaysFromCivil(y0, m, d) ==
    LET y == IF m <= 2 THEN y0 - 1 ELSE y0
        era == y \div 400
        yoe == y - era * 400
        mp == IF m > 2 THEN m - 3 ELSE m + 9
        doy == (153 * mp + 2) \div 5 + d - 1
        doe == yoe * 365 + yoe \div 4 - yoe \div 100 + doy
    IN era * 146097 + doe - 719468

CivilFromDays(days) ==
    LET z == days + 719468
        era == z \div 146097
        doe == z - era * 146097
        yoe == (doe - doe \div 1460 + doe \div 36524 - doe \div 146096) \div 365
        doy == doe - (365 * yoe + yoe \div 4 - yoe \div 100)
        mp == (5 * doy + 2) \div 153
        d == doy - (153 * mp + 2) \div 5 + 1
        m == IF mp < 10 THEN mp + 3 ELSE mp - 9
        y == yoe + era * 400 + (IF m <= 2 THEN 1 ELSE 0)
    IN [year |-> y, month |-> m, date |-> d]

\* new Date(ts): getFullYear(), getMonth() + 1, getDate()
DateOf(ts) ==
    CivilFromDays(DaysFromCivil(Epoch.year, Epoch.month, Epoch.date) + (ts \div DayMs))

Digit(d) == <<"0", "1", "2", "3", "4", "5", "6", "7", "8", "9">>[d + 1]

\* Number.prototype.toString() of a non-negative integer, digit by digit
RECURSIVE toString(_)
toString(n) ==
    IF n < 10 THEN <<Digit(n)>> ELSE toString(n \div 10) \o <<Digit(n % 10)>>

\* day <= 15: the first half of the month
Half(d) == IF d.date <= 15 THEN 0 ELSE 1

\* a key that puts the 15th into the second half
PeriodKeyOfSplitAt14(d) ==
    toString(d.year) \o <<"nian">> \o toString(d.month) \o <<"yue">>
        \o <<IF d.date < 15 THEN "shangbanyue" ELSE "xiabanyue">>

\* `${year}年${month}月${part}`, part 上半月 | 下半月
PeriodKeyOf(d) ==
    toString(d.year) \o <<"nian">> \o toString(d.month) \o <<"yue">>
        \o <<IF Half(d) = 0 THEN "shangbanyue" ELSE "xiabanyue">>

\* getPeriodKey
getPeriodKey(ts) == PeriodKeyOf(DateOf(ts))

-----------------------------------------------------------------------------
(* Storage: JSON.stringify / JSON.parse of Question[] *)

QuestionKeys ==
    <<"id", "imageUrl", "subject", "category", "subCategory", "questionText",
      "aiAnalysis", "myThinking", "correctResolution", "rootCause",
      "masteryStatus", "createdAt", "reviewCount", "lastReviewedAt">>

\* JSON.stringify of one question: its values in property order
Stringify(q) == [i \in DOMAIN QuestionKeys |-> q[QuestionKeys[i]]]

KeyIndex(k) == CHOOSE i \in DOMAIN QuestionKeys : QuestionKeys[i] = k

\* JSON.parse of one serialized question
Parse(t) == [k \in Range(QuestionKeys) |-> t[KeyIndex(k)]]

\* a saveQuestions that writes the collection of the last render, not the
\* updated one it is given
saveQuestionsOfLastRender(qs) ==
    [set |-> TRUE, data |-> [i \in DOMAIN questions |-> Stringify(questions[i])]]

\* saveQuestions: what localStorage holds after setItem.  setItem succeeds:
\* a write that throws (quota exceeded) is not modelled.
saveQuestions(qs) ==
    [set |-> TRUE, data |-> [i \in DOMAIN qs |-> Stringify(qs[i])]]

\* loadQuestions: data ? JSON.parse(data) : []
loadQuestions(slot) ==
    IF slot.set THEN [i \in DOMAIN slot.data |-> Parse(slot.data[i])] ELSE <<>>

\* localStorage with nothing stored under STORAGE_KEY
NoBlob == [set |-> FALSE, data |-> <<>>]

-----------------------------------------------------------------------------
(* Component state on mount *)

\* AddQuestion's useState initial values
AddInit ==
    [image |-> Null, isAnalyzing |-> FALSE, isDeepAnalyzing |-> FALSE,
     analysisError |-> Null, subject |-> "zhice", category |-> "yanyu",
     subCategory |-> "", aiAnalysis |-> "", myThinking |-> "",
     correctResolution |-> "", rootCause |-> "", tempMastery |-> Null]

\* ReviewMode's useState initial values; examTitle "错题组卷"
ReviewInit ==
    [mode |-> "list", examQuestions |-> <<>>, currentExamIndex |-> 0,
     showAnswer |-> FALSE, examTitle |-> <<"CuoTiZuJuan">>, filterMode |-> "all"]

Init ==
    /\ activeTab = "dashboard"
    /\ questions = <<>>
    /\ storage = NoBlob
    /\ loaded = FALSE
    /\ now = 0
    /\ apiKey = TRUE
    /\ add = AddInit
    /\ pending = EmptyBag
    /\ review = ReviewInit
    /\ advances = <<>>

-----------------------------------------------------------------------------
(* Environment *)

Ticks(t) == (t \div DayMs) + (t % DayMs)

\* Date.now(): the wall clock, read in milliseconds.  It does not run
\* backwards here; between two reads no time, a millisecond or a day has
\* passed.  `now` is the value of the latest read.
DateNow == {t \in {now, now + 1, now + DayMs} : Ticks(t) <= MaxTicks}

-----------------------------------------------------------------------------
(* App *)

\* useEffect(() => setQuestions(loadQuestions()), []); React runs it before
\* it dispatches the first user event
Load ==
    /\ ~loaded
    /\ loaded' = TRUE
    /\ questions' = loadQuestions(storage)
    /\ UNCHANGED <<activeTab, storage, now, apiKey, advances, add, pending, review>>

\* the page is loaded again: root.render(<App />) on the stored blob
Reload ==
    /\ loaded
    /\ activeTab' = "dashboard"
    /\ questions' = <<>>
    /\ loaded' = FALSE
    /\ add' = AddInit
    /\ pending' = EmptyBag
    /\ review' = ReviewInit
    /\ UNCHANGED <<storage, now, apiKey>>
    /\ advances' = <<>>

\* TabNav: the tab's component is mounted afresh, the one left is unmounted
\* (state updates of an unmounted component are dropped, so are its calls in
\* flight)
SetActiveTab(t) ==
    /\ loaded
    /\ t # activeTab
    /\ activeTab' = t
    /\ add' = AddInit
    /\ pending' = EmptyBag
    /\ review' = ReviewInit
    /\ UNCHANGED <<questions, storage, loaded, now, apiKey>>
    /\ advances' = <<>>

\* handleUpdateQuestion's questions.map(item => item.id === q.id ? q : item)
UpdatedList(qs, q) == [i \in DOMAIN qs |-> IF qs[i].id = q.id THEN q ELSE qs[i]]

\* handleSaveQuestion's [q, ...questions]
PrependedList(qs, q) == <<q>> \o qs

-----------------------------------------------------------------------------
(* AddQuestion *)

InAdd == loaded /\ activeTab = "add"

\* the form below the image is rendered only with an image
FormShown == InAdd /\ add.image # Null

One(x) == SetToBag({x})

ReadOp(img) == [op |-> "read", image |-> img]
ClassifyOp(img) == [op |-> "classify", image |-> img]
DeepOp == [op |-> "deep", image |-> Null]

\* "AI分析失败，请手动输入。"
ClassifyFailed == "AI FenXi ShiBai"
\* "深度分析失败，请稍后重试。"
DeepFailed == "ShenDu FenXi ShiBai"

\* handleImageUpload: a file is chosen and FileReader.readAsDataURL starts
HandleImageUpload(img) ==
    /\ InAdd
    /\ add.image = Null
    /\ BagCardinality(pending) < MaxPending
    /\ pending' = pending (+) One(ReadOp(img))
    /\ UNCHANGED <<activeTab, questions, storage, loaded, now, apiKey, advances, add, review>>

\* reader.onloadend: setImage(base64); analyzeImage(base64) up to its await.
\* Without an API key analyzeImage throws before the call and ends at once.
ReaderLoadEnd(img) ==
    /\ InAdd
    /\ BagIn(ReadOp(img), pending)
    /\ IF apiKey
       THEN /\ add' = [add EXCEPT !.image = img, !.isAnalyzing = TRUE,
                                  !.analysisError = Null]
            /\ pending' = (pending (-) One(ReadOp(img))) (+) One(ClassifyOp(img))
       ELSE /\ add' = [add EXCEPT !.image = img, !.isAnalyzing = FALSE,
                                  !.analysisError = ClassifyFailed]
            /\ pending' = pending (-) One(ReadOp(img))
    /\ UNCHANGED <<activeTab, questions, storage, loaded, now, apiKey, advances, review>>

\* [...CATEGORIES['职测'], ...CATEGORIES['综应']]
validCategories == Range(CATEGORIES("zhice")) \cup Range(CATEGORIES("zongying"))

\* analyzeImage after the await, on a response that parses as JSON
ApplyClassification(f, data) ==
    [f EXCEPT !.subject = IF data.subject = "zongying" THEN "zongying" ELSE "zhice",
              !.category = IF data.category \in validCategories
                           THEN data.category ELSE @,
              !.subCategory = data.subCategory,
              !.aiAnalysis = data.analysis,
              !.correctResolution = data.solution]

\* analyzeImage after the await: r.kind is "json" (the text parses), "text"
\* (it does not) or "error" (generateContent rejects)
AnalyzeImageResponse(img, r) ==
    /\ InAdd
    /\ BagIn(ClassifyOp(img), pending)
    /\ pending' = pending (-) One(ClassifyOp(img))
    /\ add' = [(CASE r.kind = "json" -> ApplyClassification(add, r)
                  [] r.kind = "text" -> [add EXCEPT !.aiAnalysis = r.text]
                  [] OTHER -> [add EXCEPT !.analysisError = ClassifyFailed])
               EXCEPT !.isAnalyzing = FALSE]
    /\ UNCHANGED <<activeTab, questions, storage, loaded, now, apiKey, advances, review>>

\* the 重新上传 button: setImage(null)
ReUpload ==
    /\ FormShown
    /\ add' = [add EXCEPT !.image = Null]
    /\ UNCHANGED <<activeTab, questions, storage, loaded, now, apiKey, advances, pending, review>>

\* the 科目 select
SetSubject(s) ==
    /\ FormShown
    /\ s # add.subject
    /\ add' = [add EXCEPT !.subject = s, !.category = CATEGORIES(s)[1]]
    /\ UNCHANGED <<activeTab, questions, storage, loaded, now, apiKey, advances, pending, review>>

\* the 大类 select, whose options are CATEGORIES[subject]
SetCategory(c) ==
    /\ FormShown
    /\ c \in Range(CATEGORIES(add.subject))
    /\ c # add.category
    /\ add' = [add EXCEPT !.category = c]
    /\ UNCHANGED <<activeTab, questions, storage, loaded, now, apiKey, advances, pending, review>>

\* the text inputs: 细分题型, 我的做题思路, 答案解析
SetSubCategory(v) ==
    /\ FormShown
    /\ v # add.subCategory
    /\ add' = [add EXCEPT !.subCategory = v]
    /\ UNCHANGED <<activeTab, questions, storage, loaded, now, apiKey, advances, pending, review>>

SetMyThinking(v) ==
    /\ FormShown
    /\ v # add.myThinking
    /\ add' = [add EXCEPT !.myThinking = v]
    /\ UNCHANGED <<activeTab, questions, storage, loaded, now, apiKey, advances, pending, review>>

SetCorrectResolution(v) ==
    /\ FormShown
    /\ v # add.correctResolution
    /\ add' = [add EXCEPT !.correctResolution = v]
    /\ UNCHANGED <<activeTab, questions, storage, loaded, now, apiKey, advances, pending, review>>

\* the diagnosis report is rendered only when rootCause is not empty
ReportShown == FormShown /\ add.rootCause # ""

SetRootCause(v) ==
    /\ ReportShown
    /\ v # add.rootCause
    /\ add' = [add EXCEPT !.rootCause = v]
    /\ UNCHANGED <<activeTab, questions, storage, loaded, now, apiKey, advances, pending, review>>

\* the 需加强 / 已掌握 buttons of the report
SetTempMastery(s) ==
    /\ ReportShown
    /\ s # add.tempMastery
    /\ add' = [add EXCEPT !.tempMastery = s]
    /\ UNCHANGED <<activeTab, questions, storage, loaded, now, apiKey, advances, pending, review>>

\* handleDeepAnalysis up to its await; the button is disabled while a
\* diagnosis runs and while both texts are empty
HandleDeepAnalysis ==
    /\ FormShown
    /\ ~add.isDeepAnalyzing
    /\ ~(add.myThinking = "" /\ add.correctResolution = "")
    /\ IF apiKey
       THEN /\ BagCardinality(pending) < MaxPending
            /\ add' = [add EXCEPT !.isDeepAnalyzing = TRUE, !.analysisError = Null]
            /\ pending' = pending (+) One(DeepOp)
       ELSE /\ add' = [add EXCEPT !.isDeepAnalyzing = FALSE,
                                  !.analysisError = DeepFailed]
            /\ pending' = pending
    /\ UNCHANGED <<activeTab, questions, storage, loaded, now, apiKey, advances, review>>

\* `${data.analysis}\n\n💡 🚀 改进方案：${data.suggestion}`
FullAnalysis(data) ==
    IF data.suggestion # ""
    THEN data.analysis \o " GaiJinFangAn: " \o data.suggestion
    ELSE data.analysis

\* handleDeepAnalysis after the await, on a response that parses as JSON
ApplyDiagnosis(f, data) ==
    [f EXCEPT !.rootCause = IF data.analysis # "" THEN FullAnalysis(data) ELSE @,
              !.tempMastery = IF data.analysis # "" THEN "review_needed" ELSE @,
              !.subCategory = IF data.refinedSubCategory # ""
                              THEN data.refinedSubCategory ELSE @]

\* a handleDeepAnalysis without its finally block
DeepAnalysisResponseWithoutFinally(r) ==
    /\ InAdd
    /\ BagIn(DeepOp, pending)
    /\ pending' = pending (-) One(DeepOp)
    /\ add' = IF r.kind = "json"
              THEN [ApplyDiagnosis(add, r) EXCEPT !.isDeepAnalyzing = FALSE]
              ELSE [add EXCEPT !.analysisError = DeepFailed]
    /\ UNCHANGED <<activeTab, questions, storage, loaded, now, apiKey, advances, review>>

\* handleDeepAnalysis after the await: r.kind is "json" or "error" (the call
\* rejects or the text does not parse)
DeepAnalysisResponse(r) ==
    /\ InAdd
    /\ BagIn(DeepOp, pending)
    /\ pending' = pending (-) One(DeepOp)
    /\ add' = [(IF r.kind = "json" THEN ApplyDiagnosis(add, r)
                ELSE [add EXCEPT !.analysisError = DeepFailed])
               EXCEPT !.isDeepAnalyzing = FALSE]
    /\ UNCHANGED <<activeTab, questions, storage, loaded, now, apiKey, advances, review>>

\* handleSave's newQ
NewQuestion(f, t) ==
    [id |-> toString(t), imageUrl |-> f.image, subject |-> f.subject,
     category |-> f.category, subCategory |-> f.subCategory,
     questionText |-> "Image Question", aiAnalysis |-> f.aiAnalysis,
     myThinking |-> f.myThinking, correctResolution |-> f.correctResolution,
     rootCause |-> f.rootCause, masteryStatus |-> f.tempMastery,
     createdAt |-> t, reviewCount |-> 0, lastReviewedAt |-> <<>>]

\* handleSave, then App.handleSaveQuestion: prepend, persist, show the
\* review tab (AddQuestion is unmounted)
HandleSaveUpTo(max) ==
    /\ FormShown
    /\ Len(questions) < max
    /\ \E t \in DateNow :
          /\ now' = t
          /\ questions' = PrependedList(questions, NewQuestion(add, t))
    /\ storage' = saveQuestions(questions')
    /\ activeTab' = "review"
    /\ add' = AddInit
    /\ pending' = EmptyBag
    /\ review' = ReviewInit
    /\ UNCHANGED <<loaded, apiKey>>
    /\ advances' = <<>>

HandleSave == HandleSaveUpTo(MaxQuestions)

-----------------------------------------------------------------------------
(* ReviewMode *)

InReview == loaded /\ activeTab = "review"

\* an exam screen rendered whenever a pool is left, whatever the mode
ExamShownWithoutMode == InReview /\ Len(review.examQuestions) > 0

\* if (mode === 'exam' && examQuestions.length > 0): the exam screen
ExamShown == InReview /\ review.mode = "exam" /\ Len(review.examQuestions) > 0

\* otherwise the list screen
ListShown == InReview /\ ~(review.mode = "exam" /\ Len(review.examQuestions) > 0)

\* the 全部题目 / 重点复习 tabs
SetFilterMode(m) ==
    /\ ListShown
    /\ m # review.filterMode
    /\ review' = [review EXCEPT !.filterMode = m]
    /\ UNCHANGED <<activeTab, questions, storage, loaded, now, apiKey, advances, add, pending>>

IsPriority(q) == q.masteryStatus = "review_needed"

\* questions.filter(q => q.masteryStatus === 'review_needed')
PriorityFilter(qs) == SelectSeq(qs, IsPriority)

\* startRandomExam's pool
RandomPool(qs, filterMode) == IF filterMode = "priority" THEN PriorityFilter(qs) ELSE qs

Injections(n) == {p \in [1..n -> 1..n] : \A i, j \in 1..n : p[i] = p[j] => i = j}

\* a shuffle that may take one element twice and lose another
ShufflesWithRepeats(pool) ==
    {[i \in 1..Len(pool) |-> pool[p[i]]] : p \in [1..Len(pool) -> 1..Len(pool)]}

\* [...pool].sort(() => 0.5 - Math.random()): the comparator is random, the
\* copy comes back in an order the engine decides
Shuffles(pool) ==
    {[i \in 1..Len(pool) |-> pool[p[i]]] : p \in Injections(Len(pool))}

\* "重点题目突击" : "随机巩固练习"
RandomTitle(filterMode) ==
    IF filterMode = "priority" THEN <<"ZhongDianTiMuTuJi">> ELSE <<"SuiJiGongGuLianXi">>

\* `${periodKey} 模拟考试`
PeriodTitle(periodKey) == periodKey \o <<" MoNiKaoShi">>

\* the state a started session has
Started(r, shuffled, title) ==
    [r EXCEPT !.examQuestions = shuffled, !.currentExamIndex = 0,
              !.showAnswer = FALSE, !.examTitle = title, !.mode = "exam"]

\* a startRandomExam without the pool.length === 0 return
StartRandomExamUnchecked ==
    /\ ListShown
    /\ \E shuffled \in Shuffles(RandomPool(questions, review.filterMode)) :
          review' = Started(review, shuffled, RandomTitle(review.filterMode))
    /\ advances' = <<0>>
    /\ UNCHANGED <<activeTab, questions, storage, loaded, now, apiKey, add, pending>>

\* startRandomExam: the 随机练习 / 突击重点 button
StartRandomExam ==
    /\ ListShown
    /\ LET pool == RandomPool(questions, review.filterMode)
       IN IF Len(pool) = 0
          THEN UNCHANGED <<review, advances>>
          ELSE /\ \E shuffled \in Shuffles(pool) :
                     review' = Started(review, shuffled, RandomTitle(review.filterMode))
               /\ advances' = <<0>>
    /\ UNCHANGED <<activeTab, questions, storage, loaded, now, apiKey, add, pending>>

\* the keys of periodGroups
PeriodKeys(qs) == {getPeriodKey(qs[i].createdAt) : i \in DOMAIN qs}

\* periodGroups: each key with the questions of that period, in store order
periodGroups(qs) ==
    [key \in PeriodKeys(qs) |->
        SelectSeq(qs, LAMBDA q : getPeriodKey(q.createdAt) = key)]

\* Object.keys(periodGroups): the keys in the order of their first question
RECURSIVE ObjectKeys(_)
ObjectKeys(qs) ==
    IF Len(qs) = 0 THEN <<>>
    ELSE LET front == ObjectKeys(SubSeq(qs, 1, Len(qs) - 1))
             key == getPeriodKey(qs[Len(qs)].createdAt)
         IN IF key \in Range(front) THEN front ELSE Append(front, key)

IsDigit(c) == \E d \in 0..9 : Digit(d) = c

DigitValue(c) == CHOOSE d \in 0..9 : Digit(d) = c

\* parseInt of a run of digits
RECURSIVE parseInt(_)
parseInt(ds) ==
    IF Len(ds) = 1 THEN DigitValue(ds[1])
    ELSE parseInt(SubSeq(ds, 1, Len(ds) - 1)) * 10 + DigitValue(ds[Len(ds)])

\* k.match(/(\d+)年(\d+)月(.+)/): the places <<s, i, j>> where digits s..i-1
\* stand before 年 at i, digits i+1..j-1 before 月 at j, and something follows
KeyMatches(k) ==
    {m \in (DOMAIN k) \X (DOMAIN k) \X (DOMAIN k) :
        /\ m[1] < m[2] /\ m[2] + 1 < m[3] /\ m[3] < Len(k)
        /\ k[m[2]] = "nian" /\ k[m[3]] = "yue"
        /\ \A x \in m[1]..(m[2] - 1) : IsDigit(k[x])
        /\ \A x \in (m[2] + 1)..(m[3] - 1) : IsDigit(k[x])}

\* the sort's parse with the year weighted 100
parseWeighingYear100(k) ==
    IF KeyMatches(k) = {} THEN 0
    ELSE LET m == CHOOSE a \in KeyMatches(k) :
                      \A b \in KeyMatches(k) :
                          a[1] < b[1] \/ (a[1] = b[1] /\ a[2] <= b[2])
             y == parseInt(SubSeq(k, m[1], m[2] - 1))
             mo == parseInt(SubSeq(k, m[2] + 1, m[3] - 1))
             half == IF SubSeq(k, m[3] + 1, Len(k)) = <<"shangbanyue">> THEN 0 ELSE 1
         IN y * 100 + mo * 10 + half

\* the sort's parse: y * 1000 + m * 10 + p, 0 when the key does not match
parse(k) ==
    IF KeyMatches(k) = {} THEN 0
    ELSE LET m == CHOOSE a \in KeyMatches(k) :
                      \A b \in KeyMatches(k) :
                          a[1] < b[1] \/ (a[1] = b[1] /\ a[2] <= b[2])
             y == parseInt(SubSeq(k, m[1], m[2] - 1))
             mo == parseInt(SubSeq(k, m[2] + 1, m[3] - 1))
             half == IF SubSeq(k, m[3] + 1, Len(k)) = <<"shangbanyue">> THEN 0 ELSE 1
         IN y * 1000 + mo * 10 + half

\* one step of the sort: k goes behind the keys that do not parse lower
InsertPeriod(sorted, k) ==
    LET n == Cardinality({i \in DOMAIN sorted : parse(sorted[i]) >= parse(k)})
    IN SubSeq(sorted, 1, n) \o <<k>> \o SubSeq(sorted, n + 1, Len(sorted))

\* keys.sort((a, b) => parse(b) - parse(a)): descending by parse, stable
RECURSIVE SortPeriods(_)
SortPeriods(keys) ==
    IF Len(keys) = 0 THEN <<>>
    ELSE InsertPeriod(SortPeriods(SubSeq(keys, 1, Len(keys) - 1)), keys[Len(keys)])

\* periods: the period cards from top to bottom
periods(qs) == SortPeriods(ObjectKeys(qs))

\* startPeriodExam: the 开始考试 button of a period card; the cards are
\* rendered in the 全部题目 tab only
StartPeriodExam(periodKey) ==
    /\ ListShown
    /\ review.filterMode = "all"
    /\ periodKey \in PeriodKeys(questions)
    /\ \E shuffled \in Shuffles(periodGroups(questions)[periodKey]) :
          review' = Started(review, shuffled, PeriodTitle(periodKey))
    /\ advances' = <<0>>
    /\ UNCHANGED <<activeTab, questions, storage, loaded, now, apiKey, add, pending>>

\* the 退出 button
ExitExam ==
    /\ ExamShown
    /\ review' = [review EXCEPT !.mode = "list"]
    /\ advances' = <<>>
    /\ UNCHANGED <<activeTab, questions, storage, loaded, now, apiKey, add, pending>>

\* the 查看解析 button
ShowAnswer ==
    /\ ExamShown
    /\ ~review.showAnswer
    /\ review' = [review EXCEPT !.showAnswer = TRUE]
    /\ UNCHANGED <<activeTab, questions, storage, loaded, now, apiKey, advances, add, pending>>

Max(a, b) == IF a >= b THEN a ELSE b

\* What a handler of the exam screen reads and writes: App's questions (with
\* the blob, which handleUpdateQuestion writes from them) and ReviewMode's
\* state.  The handlers are given as functions of this pair.
Session == [questions |-> questions, review |-> review]

\* the question on screen: examQuestions[currentExamIndex]
CurrentOf(ss) == ss.review.examQuestions[ss.review.currentExamIndex + 1]

CurrentQ == CurrentOf(Session)

\* handleUpdateMastery's { ...q, masteryStatus: status }
setMasteryStatus(q, status) == [q EXCEPT !.masteryStatus = status]

\* a review pass that also withdraws the mastery status
recordReviewPassClearingMastery(q, t) ==
    [q EXCEPT !.reviewCount = @ + 1, !.lastReviewedAt = <<t>>, !.masteryStatus = Null]

\* handleNext's { ...currentQ, reviewCount: (currentQ.reviewCount || 0) + 1,
\*                lastReviewedAt: Date.now() }
recordReviewPass(q, t) ==
    [q EXCEPT !.reviewCount = @ + 1, !.lastReviewedAt = <<t>>]

\* newExamQs[currentExamIndex] = updatedQ; setExamQuestions(newExamQs)
Replaced(r, updatedQ) ==
    [r EXCEPT !.examQuestions = [@ EXCEPT ![r.currentExamIndex + 1] = updatedQ]]

\* a 上一题 handler that leaves the answer shown
AfterPreviousKeepingReveal(ss) ==
    [ss EXCEPT !.review = [@ EXCEPT !.currentExamIndex = Max(0, @ - 1)]]

\* the 上一题 button's handler
AfterPrevious(ss) ==
    [ss EXCEPT !.review = [@ EXCEPT !.currentExamIndex = Max(0, @ - 1),
                                    !.showAnswer = FALSE]]

\* handleUpdateMastery(q, status), q the question on screen
AfterUpdateMastery(ss, status) ==
    LET updatedQ == setMasteryStatus(CurrentOf(ss), status)
    IN [questions |-> UpdatedList(ss.questions, updatedQ),
        review |-> Replaced(ss.review, updatedQ)]

\* a handleNext that ends the session one question early
AdvancedOneShort(r) ==
    IF r.currentExamIndex < Len(r.examQuestions) - 2
    THEN [r EXCEPT !.currentExamIndex = @ + 1, !.showAnswer = FALSE]
    ELSE [r EXCEPT !.mode = "list"]

\* where handleNext leaves the session
Advanced(r) ==
    IF r.currentExamIndex < Len(r.examQuestions) - 1
    THEN [r EXCEPT !.currentExamIndex = @ + 1, !.showAnswer = FALSE]
    ELSE [r EXCEPT !.mode = "list"]

\* handleNext, Date.now() returning t
AfterNext(ss, t) ==
    LET updatedQ == recordReviewPass(CurrentOf(ss), t)
    IN [questions |-> UpdatedList(ss.questions, updatedQ),
        review |-> Advanced(Replaced(ss.review, updatedQ))]

\* the handler's writes, with App.handleUpdateQuestion's saveQuestions(updated)
Commit(ss) ==
    /\ questions' = ss.questions
    /\ storage' = saveQuestions(ss.questions)
    /\ review' = ss.review

\* the 上一题 button, disabled at index 0
Previous ==
    /\ ExamShown
    /\ review.currentExamIndex # 0
    /\ review' = AfterPrevious(Session).review
    /\ advances' = <<>>
    /\ UNCHANGED <<activeTab, questions, storage, loaded, now, apiKey, add, pending>>

\* handleUpdateMastery: the 需加强 / 已掌握 buttons, rendered with the answer
\* shown and a rootCause
HandleUpdateMastery(status) ==
    /\ ExamShown
    /\ review.showAnswer
    /\ CurrentQ.rootCause # ""
    /\ Commit(AfterUpdateMastery(Session, status))
    /\ UNCHANGED <<activeTab, loaded, now, apiKey, advances, add, pending>>

\* handleNext: the 下一题 / 完成 button
HandleNext ==
    /\ ExamShown
    /\ CurrentQ.reviewCount < MaxReviews
    /\ \E t \in DateNow :
          /\ now' = t
          /\ Commit(AfterNext(Session, t))
    /\ advances' = IF advances = <<>> THEN <<>> ELSE <<advances[1] + 1>>
    /\ UNCHANGED <<activeTab, loaded, apiKey, add, pending>>

-----------------------------------------------------------------------------
(* The inputs of the environment *)

Tabs == {"dashboard", "add", "review"}

MasteryChoices == {"review_needed", "mastered"}

\* the screenshots the user uploads (their data URLs)
Images == {"imgA", "imgB"}

Classification(kind, subject, category) ==
    [kind |-> kind, text |-> "raw", subject |-> subject, category |-> category,
     subCategory |-> "sub", analysis |-> "analysis", solution |-> "solution"]

Diagnosis(kind, analysis, refined, suggestion) ==
    [kind |-> kind, analysis |-> analysis, refinedSubCategory |-> refined,
     suggestion |-> suggestion]

\* what the user does in the review tab
ReviewNext ==
    \/ \E m \in {"all", "priority"} : SetFilterMode(m)
    \/ StartRandomExam
    \/ \E k \in PeriodKeys(questions) : StartPeriodExam(k)
    \/ ExitExam
    \/ ShowAnswer
    \/ Previous
    \/ \E s \in MasteryChoices : HandleUpdateMastery(s)
    \/ HandleNext

\* the application, with a user who captures a screenshot, saves it before
\* the classification has answered, possibly after writing down a thought and
\* getting the diagnosis, and reviews
Next ==
    \/ Load
    \/ Reload
    \/ \E t \in Tabs : SetActiveTab(t)
    \/ HandleImageUpload("imgA")
    \/ ReaderLoadEnd("imgA")
    \/ SetMyThinking("thought")
    \/ HandleDeepAnalysis
    \/ DeepAnalysisResponse(Diagnosis("json", "cause", "", ""))
    \/ HandleSave
    \/ ReviewNext

Spec == Init /\ [][Next]_vars

\* what generateContent may answer to the classification prompt: JSON whose
\* category is one of its subject's, one of the other subject's or no known
\* category, text that is not JSON, or a failure
ClassificationResponses ==
    {Classification("json", "zongying", "wenshu"),
     Classification("json", "zhice", "anli"),
     Classification("json", "zongying", "QiTa"),
     Classification("text", "", ""),
     Classification("error", "", "")}

\* process.env.GEMINI_API_KEY is set or not
InitCapture ==
    /\ activeTab = "dashboard"
    /\ questions = <<>>
    /\ storage = NoBlob
    /\ loaded = FALSE
    /\ now = 0
    /\ apiKey \in BOOLEAN
    /\ add = AddInit
    /\ pending = EmptyBag
    /\ review = ReviewInit
    /\ advances = <<>>

\* what the user and the classification do in the add tab
CaptureNext ==
    \/ \E img \in Images : HandleImageUpload(img)
    \/ \E img \in Images : ReaderLoadEnd(img)
    \/ \E img \in Images, r \in ClassificationResponses : AnalyzeImageResponse(img, r)
    \/ ReUpload
    \/ \E sub \in Subjects : SetSubject(sub)
    \/ \E c \in validCategories : SetCategory(c)
    \/ HandleSaveUpTo(MaxCaptured)

\* the application with a user who stays with capturing
NextCapture ==
    \/ Load
    \/ \E t \in {"dashboard", "add"} : SetActiveTab(t)
    \/ CaptureNext

SpecCapture == InitCapture /\ [][NextCapture]_vars

\* what generateContent may answer to the diagnosis prompt: JSON with or
\* without an analysis, text that is not JSON, or a failure
DiagnosisResponses ==
    {Diagnosis("json", "cause", "refined", "advice"),
     Diagnosis("json", "", "", ""),
     Diagnosis("text", "", "", ""),
     Diagnosis("error", "", "", "")}

\* what the user and the diagnosis do in the add tab
DiagnosisNext ==
    \/ HandleImageUpload("imgA")
    \/ ReaderLoadEnd("imgA")
    \/ ReUpload
    \/ SetSubCategory("typed")
    \/ SetMyThinking("thought")
    \/ SetCorrectResolution("solution")
    \/ HandleDeepAnalysis
    \/ \E r \in DiagnosisResponses : DeepAnalysisResponse(r)
    \/ SetRootCause("edited")
    \/ \E m \in MasteryChoices : SetTempMastery(m)

\* the application with a user who stays with the diagnosis of one capture
NextDiagnosis ==
    \/ Load
    \/ \E t \in {"dashboard", "add"} : SetActiveTab(t)
    \/ DiagnosisNext

SpecDiagnosis == InitCapture /\ [][NextDiagnosis]_vars

\* the times earlier questions were saved at: 2024-12-15 at its first and
\* its last millisecond, 2024-12-16, 2024-12-31 and 2025-01-01 at midnight
PeriodTimes == {0, DayMs - 1, DayMs, 16 * DayMs, 17 * DayMs}

\* a store left by earlier use: the newest question first, saved at
\* different times
StoresBefore ==
    {ts \in UNION {[1..n -> PeriodTimes] : n \in 0..MaxStored} :
        \A i \in DOMAIN ts : i > 1 => ts[i - 1] > ts[i]}

QuestionSavedAt(t) == NewQuestion([AddInit EXCEPT !.image = "imgA"], t)

\* the page is opened on a blob that earlier use has left
InitPeriods ==
    /\ activeTab = "dashboard"
    /\ questions = <<>>
    /\ \E ts \in StoresBefore :
          /\ storage = saveQuestions([i \in DOMAIN ts |-> QuestionSavedAt(ts[i])])
          /\ now = IF Len(ts) = 0 THEN 0 ELSE ts[1]
    /\ loaded = FALSE
    /\ apiKey = TRUE
    /\ add = AddInit
    /\ pending = EmptyBag
    /\ review = ReviewInit
    /\ advances = <<>>

\* the application with a user who looks at the periods and starts sessions
\* over them
NextPeriods ==
    \/ Load
    \/ \E t \in Tabs : SetActiveTab(t)
    \/ \E m \in {"all", "priority"} : SetFilterMode(m)
    \/ \E k \in PeriodKeys(questions) : StartPeriodExam(k)
    \/ ExitExam

SpecPeriods == InitPeriods /\ [][NextPeriods]_vars

-----------------------------------------------------------------------------
(* The claims *)

IdsUnique(qs) == \A i, j \in DOMAIN qs : i # j => qs[i].id # qs[j].id

\* the positions of the store that hold a record with this id
Holders(qs, id) == {k \in DOMAIN qs : qs[k].id = id}

SameStats(q1, q2) ==
    q1.reviewCount = q2.reviewCount /\ q1.lastReviewedAt = q2.lastReviewedAt

\* what C1 says of one handleNext step
AdvanceRecordsOnePass ==
    /\ Len(questions') = Len(questions)
    /\ \E k \in DOMAIN questions :
          /\ questions[k].id = CurrentQ.id
          /\ questions'[k].reviewCount = questions[k].reviewCount + 1
          /\ questions'[k].lastReviewedAt = <<now'>>
          /\ \A j \in DOMAIN questions \ {k} : SameStats(questions'[j], questions[j])

\* C1: handleNext, with the answer shown or not, adds exactly 1 to the stored
\* reviewCount of the question on screen and sets its stored lastReviewedAt to
\* the current time; the reviewCount and lastReviewedAt of every other stored
\* question stay as they were.
C1_AdvanceRecordsOnePass == [][HandleNext => AdvanceRecordsOnePass]_vars

\* C1 holds of the steps taken from a store without a repeated id.
C1_GivenUniqueIds ==
    [][HandleNext /\ IdsUnique(questions) => AdvanceRecordsOnePass]_vars

\* what C3 says of one handleUpdateMastery(status) step
MasteryOnlyWritten(status) ==
    /\ Len(questions') = Len(questions)
    /\ \E k \in DOMAIN questions :
          /\ questions[k].id = CurrentQ.id
          /\ questions'[k] = [questions[k] EXCEPT !.masteryStatus = status]
          /\ \A j \in DOMAIN questions \ {k} : questions'[j] = questions[j]

\* C3: handleUpdateMastery(status) writes status to the stored masteryStatus
\* of the question on screen in the same step, and changes no other field of
\* that stored question and no other stored question.
C3_MasteryWrittenAtOnce ==
    [][\A status \in MasteryChoices :
          HandleUpdateMastery(status) => MasteryOnlyWritten(status)]_vars

\* C3 holds of the steps taken from a store without a repeated id.
C3_GivenUniqueIds ==
    [][\A status \in MasteryChoices :
          HandleUpdateMastery(status) /\ IdsUnique(questions)
              => MasteryOnlyWritten(status)]_vars

\* the stored collection, read the way loadQuestions reads it
Stored == loadQuestions(storage)

\* a stored record and the record that holds its place one step later (new
\* questions are put in front)
StatsKept(old, new) ==
    /\ new.reviewCount >= old.reviewCount
    /\ old.lastReviewedAt # <<>> =>
          /\ new.lastReviewedAt # <<>>
          /\ new.lastReviewedAt[1] >= old.lastReviewedAt[1]

StatsNeverFall ==
    /\ Len(Stored') >= Len(Stored)
    /\ \A i \in DOMAIN Stored :
          StatsKept(Stored[i], Stored'[i + Len(Stored') - Len(Stored)])

\* C5: in no step does the reviewCount of a stored question decrease, nor its
\* lastReviewedAt, once set, decrease or become null again.
C5_StatsNeverFall == [][StatsNeverFall]_vars

\* C5 holds of the steps taken from a store without a repeated id.
C5_GivenUniqueIds == [][IdsUnique(Stored) => StatsNeverFall]_vars

\* a step that calls handleUpdateQuestion, and the record it passes
UpdateStep == HandleNext \/ \E status \in MasteryChoices : HandleUpdateMastery(status)

PassedQ == review'.examQuestions[review.currentExamIndex + 1]

ExactlyOneReplaced ==
    /\ Len(questions') = Len(questions)
    /\ Cardinality(Holders(questions, PassedQ.id)) <= 1
    /\ \A k \in DOMAIN questions :
          questions'[k] = IF k \in Holders(questions, PassedQ.id)
                          THEN PassedQ ELSE questions[k]

\* C7: handleUpdateQuestion(q) replaces exactly the one record whose id is
\* q.id by q; every other record, the length and the order of the collection
\* are unchanged, and nothing changes when no record has that id.
C7_UpdateReplacesOne == [][UpdateStep => ExactlyOneReplaced]_vars

\* C7 holds of the steps taken from a store without a repeated id.
C7_GivenUniqueIds == [][UpdateStep /\ IdsUnique(questions) => ExactlyOneReplaced]_vars

\* C8: no two questions of the store share an id.
C8_IdsUnique == IdsUnique(questions)

\* Active(i, revealed) is the exam screen at index i; Finished is the list
\* screen that handleNext returns to
PoolSize == Len(review.examQuestions)

\* the session after k handleNext calls in a row from its start
RunOfAdvances ==
    advances # <<>> =>
        IF advances[1] < PoolSize
        THEN ExamShown /\ review.currentExamIndex = advances[1]
        ELSE advances[1] = PoolSize /\ review.mode = "list"

\* one handleNext step
AdvanceMoves ==
    IF review.currentExamIndex < PoolSize - 1
    THEN /\ review'.mode = "exam"
         /\ review'.currentExamIndex = review.currentExamIndex + 1
         /\ review'.showAnswer = FALSE
         /\ Len(review'.examQuestions) = PoolSize
    ELSE /\ review'.mode = "list"
         /\ \E k \in DOMAIN Stored' :
               /\ Stored'[k].id = CurrentQ.id
               /\ Stored'[k].reviewCount = CurrentQ.reviewCount + 1

\* C2: handleNext at index i of a pool of n questions goes to index i + 1 with
\* the answer hidden when i < n - 1 and ends the session when i = n - 1, the
\* last question's reviewCount being persisted; so a session that has seen k
\* handleNext calls in a row since its start is at index k while k < n and is
\* finished when k = n.
C2_AdvanceWalksThePool == [][RunOfAdvances' /\ (HandleNext => AdvanceMoves)]_vars

\* a pool of two questions walked to its end by two handleNext calls
C2_Witness == advances = <<2>> /\ PoolSize = 2 /\ review.mode = "list"

\* the two orders on the question on screen: 已掌握/需加强 then 下一题, and
\* 下一题, 上一题 (back to the question), then 已掌握/需加强
MasteryThenNext(status, t) == AfterNext(AfterUpdateMastery(Session, status), t)

NextThenMastery(status, t) ==
    AfterUpdateMastery(AfterPrevious(AfterNext(Session, t)), status)

\* C4: for the question on screen (not the last of the pool, so that the
\* session can come back to it), setting the mastery status and then taking
\* handleNext leaves the same stored record as taking handleNext, coming back
\* and setting the mastery status.
C4_OrdersConverge ==
    (ExamShown /\ review.currentExamIndex < PoolSize - 1 /\ CurrentQ.rootCause # "") =>
        \A status \in MasteryChoices, t \in DateNow :
            \A k \in Holders(questions, CurrentQ.id) :
                MasteryThenNext(status, t).questions[k]
                    = NextThenMastery(status, t).questions[k]

\* a question that was marked 已掌握 and passed by handleNext, on screen again
\* with another question after it
C4_Witness ==
    /\ ExamShown
    /\ review.currentExamIndex < PoolSize - 1
    /\ CurrentQ.rootCause # ""
    /\ CurrentQ.masteryStatus = "mastered"
    /\ CurrentQ.reviewCount > 0

BagOfSeq(seq) ==
    [x \in Range(seq) |-> Cardinality({i \in DOMAIN seq : seq[i] = x})]

\* the questions the criterion of the started session selects
Selected ==
    IF review'.examTitle = RandomTitle("priority") THEN PriorityFilter(questions)
    ELSE IF review'.examTitle = RandomTitle("all") THEN questions
    ELSE SelectSeq(questions,
            LAMBDA q : PeriodTitle(getPeriodKey(q.createdAt)) = review'.examTitle)

\* a step that starts a session
StartStep == ListShown /\ review'.mode = "exam"

\* C10: the pool of a started session holds exactly the stored questions its
\* criterion selects (all, priority, or the period), each as often as the
\* store holds it, and the store is as it was.
C10_PoolIsPermutation ==
    [][StartStep =>
          /\ BagOfSeq(review'.examQuestions) = BagOfSeq(Selected)
          /\ Len(review'.examQuestions) = Len(Selected)
          /\ questions' = questions
          /\ storage' = storage]_vars

\* a period session over two questions, in the other order than the store's
C10_Witness ==
    /\ ExamShown
    /\ review.currentExamIndex = 0
    /\ PoolSize = 2
    /\ review.examTitle \notin {RandomTitle("priority"), RandomTitle("all")}
    /\ review.examQuestions[1] = questions[2]
    /\ review.examQuestions[2] = questions[1]
    /\ questions[1] # questions[2]

\* C9: the category of every saved question is one of CATEGORIES[subject]
\* of its subject.
C9_CategoryOfSubject ==
    \A i \in DOMAIN questions :
        questions[i].category \in Range(CATEGORIES(questions[i].subject))

\* a session is on: mode is 'exam'
SessionOn == InReview /\ review.mode = "exam"

IndexInPool ==
    SessionOn =>
        /\ PoolSize > 0
        /\ review.currentExamIndex >= 0
        /\ review.currentExamIndex < PoolSize

\* no step of ReviewMode from the list screen, with nothing to select under
\* the filter, starts a session
EmptyPoolStartsNothing ==
    (ListShown /\ Len(RandomPool(questions, review.filterMode)) = 0 /\ InReview') =>
        /\ review'.mode # "exam"
        /\ review'.examQuestions = review.examQuestions
        /\ review'.currentExamIndex = review.currentExamIndex
        /\ review'.showAnswer = review.showAnswer

\* C11: from the list screen with an empty filtered set no step starts a
\* session (mode, pool, index and reveal state stay), and whenever a session
\* is on its pool is not empty and 0 <= index < pool length, whether it was
\* started at random, over the priority questions or over a period.
C11_NoSessionOverEmptyPool == [][IndexInPool' /\ EmptyPoolStartsNothing]_vars

\* the priority list is shown, the store has questions, none of them is
\* marked review_needed: 突击重点 finds nothing to select
C11_Witness ==
    /\ ListShown
    /\ review.filterMode = "priority"
    /\ Len(questions) > 0
    /\ Len(PriorityFilter(questions)) = 0
    /\ ENABLED StartRandomExam

\* Active(max(0, i - 1), false), the rest of the session as it is
BackOne == [review EXCEPT !.currentExamIndex = Max(0, @ - 1), !.showAnswer = FALSE]

\* what a 上一题 step does
PreviousGoesBack ==
    /\ review.currentExamIndex > 0
    /\ review' = BackOne
    /\ questions' = questions
    /\ storage' = storage

\* C12, as the code has it: 上一题 at index i > 0 leads to index i - 1 with the
\* answer hidden and changes no question record; at index 0 the button is
\* disabled, no 上一题 step exists and a shown answer stays shown.
C12_PreviousGoesBack ==
    [][/\ Previous => PreviousGoesBack
       /\ (ExamShown /\ review.currentExamIndex = 0) => ~ENABLED Previous]_vars

\* the session is back on its first question by 上一题
C12_Witness ==
    /\ ExamShown
    /\ advances = <<>>
    /\ review.currentExamIndex = 0
    /\ ~review.showAnswer
    /\ review.examQuestions[1].reviewCount > 0

\* C12, as the claim has it: in every exam state, index 0 included, 上一题
\* leads to Active(max(0, i - 1), false) without changing a question record
\* (where the session is in that state already there is nothing to do).
C12_PreviousAtEveryIndex ==
    ExamShown =>
        \/ review = BackOne
        \/ ENABLED (Previous /\ review' = BackOne /\ questions' = questions)

\* a session has ended: handleNext on its last question (or 退出) has set the
\* mode back to 'list'; its pool and index are still in ReviewMode's state
SessionOver == InReview /\ review.mode = "list" /\ PoolSize > 0

NoExamHandler ==
    /\ ~ENABLED ShowAnswer
    /\ ~ENABLED Previous
    /\ ~ENABLED HandleNext
    /\ \A status \in MasteryChoices : ~ENABLED HandleUpdateMastery(status)

\* C13: once a session has ended, 查看解析, 上一题, 下一题 and the mastery
\* buttons of that session cannot act, and no step of ReviewMode changes a
\* stored record; the only way on is to start a session, which begins at
\* index 0 with the answer hidden.
C13_FinishedIsTerminal ==
    [][SessionOver =>
          /\ NoExamHandler
          /\ InReview' =>
                /\ questions' = questions
                /\ storage' = storage
                /\ review'.mode = "exam" =>
                      review'.currentExamIndex = 0 /\ ~review'.showAnswer]_vars

\* a session ended by handleNext on its last question, whose answer was shown
C13_Witness ==
    /\ InReview
    /\ review.mode = "list"
    /\ advances = <<PoolSize>>
    /\ review.showAnswer
    /\ review.currentExamIndex = PoolSize - 1

\* the catch and the finally of handleDeepAnalysis, and nothing else
DeepFailureKeepsForm ==
    add' = [add EXCEPT !.analysisError = DeepFailed, !.isDeepAnalyzing = FALSE]

\* C14: when the diagnosis fails (no API key, the call rejects, or the text
\* does not parse) the form keeps rootCause, subCategory, tempMastery,
\* myThinking, correctResolution, subject and category, the error message is
\* set and isDeepAnalyzing is false again.
C14_DeepFailureKeepsForm ==
    [][/\ \A r \in DiagnosisResponses :
             (r.kind # "json" /\ DeepAnalysisResponse(r)) => DeepFailureKeepsForm
       /\ (HandleDeepAnalysis /\ ~apiKey) => DeepFailureKeepsForm]_vars

\* a diagnosis that failed after an earlier one had filled the report, the
\* user's texts still in the form
C14_Witness ==
    /\ InAdd
    /\ apiKey
    /\ add.analysisError = DeepFailed
    /\ ~add.isDeepAnalyzing
    /\ add.rootCause # ""
    /\ add.myThinking # ""
    /\ add.tempMastery = "mastered"
    /\ ENABLED HandleDeepAnalysis

\* the fields the classification fills
ClassifiedFields(f) ==
    <<f.subject, f.category, f.subCategory, f.aiAnalysis, f.correctResolution>>

\* C15: when the classification call fails or its text does not parse, the
\* form keeps subject, category, subCategory, aiAnalysis and
\* correctResolution, and the error message is set.
C15_ClassifyFailureKeepsForm ==
    [][\A img \in Images, r \in ClassificationResponses :
          (r.kind # "json" /\ AnalyzeImageResponse(img, r)) =>
              /\ ClassifiedFields(add') = ClassifiedFields(add)
              /\ add'.analysisError = ClassifyFailed]_vars

\* C15 holds of the responses that are failures of the call itself.
C15_GivenCallRejected ==
    [][\A img \in Images, r \in ClassificationResponses :
          (r.kind = "error" /\ AnalyzeImageResponse(img, r)) =>
              /\ ClassifiedFields(add') = ClassifiedFields(add)
              /\ add'.analysisError = ClassifyFailed]_vars

\* civil dates around the turns of half, month and year
CivilDates == [year : {2024, 2025}, month : {1, 9, 10, 12}, date : {15, 16}]

\* d1 lies in a later period than d2: the year decides, then the month,
\* then the half (the days 1..15 before the rest)
LaterPeriod(d1, d2) ==
    LET h1 == IF d1.date \in 1..15 THEN 0 ELSE 1
        h2 == IF d2.date \in 1..15 THEN 0 ELSE 1
    IN \/ d1.year > d2.year
       \/ d1.year = d2.year /\ d1.month > d2.month
       \/ d1.year = d2.year /\ d1.month = d2.month /\ h1 > h2

PlaceOf(seq, x) == CHOOSE i \in DOMAIN seq : seq[i] = x

\* C16: the period cards stand most recent first: of two different period
\* keys the one of the later (year, month, half) comes first, the year
\* deciding before the month and the month before the half, also across the
\* turn of the year (2025年1月上半月 before 2024年12月下半月).
C16_PeriodsMostRecentFirst ==
    /\ \A d1, d2 \in CivilDates :
          PeriodKeyOf(d1) # PeriodKeyOf(d2) =>
              SortPeriods(<<PeriodKeyOf(d1), PeriodKeyOf(d2)>>)
                  = IF LaterPeriod(d1, d2)
                    THEN <<PeriodKeyOf(d1), PeriodKeyOf(d2)>>
                    ELSE <<PeriodKeyOf(d2), PeriodKeyOf(d1)>>
    /\ Len(periods(questions)) = Cardinality(PeriodKeys(questions))
    /\ Range(periods(questions)) = PeriodKeys(questions)
    /\ \A i, j \in DOMAIN questions :
          LET ki == getPeriodKey(questions[i].createdAt)
              kj == getPeriodKey(questions[j].createdAt)
          IN ki # kj =>
                (PlaceOf(periods(questions), ki) < PlaceOf(periods(questions), kj)
                    <=> LaterPeriod(DateOf(questions[i].createdAt),
                                    DateOf(questions[j].createdAt)))

\* the list shows three periods, 2025年1月上半月 on top, from a store whose
\* order is the same
C16_Witness ==
    /\ ListShown
    /\ Len(periods(questions)) = 3
    /\ periods(questions)[1] = getPeriodKey(17 * DayMs)
    /\ periods(questions)[2] = getPeriodKey(DayMs)
    /\ periods(questions)[3] = getPeriodKey(0)

\* d1 and d2 have the year, the month and the half in common
SamePeriod(d1, d2) ==
    /\ d1.year = d2.year
    /\ d1.month = d2.month
    /\ (d1.date \in 1..15) = (d2.date \in 1..15)

\* C17: getPeriodKey gives two timestamps the same key exactly when they have
\* year, month and half in common (the days up to the 15th are the first
\* half), so the 15th and the 16th of a month get different keys; and every
\* question stands in the group of the period of its createdAt and in no
\* other.
C17_KeyIsPeriod ==
    /\ DateOf(DayMs - 1) = Epoch
    /\ DateOf(DayMs) = [year |-> 2024, month |-> 12, date |-> 16]
    /\ DateOf(17 * DayMs) = [year |-> 2025, month |-> 1, date |-> 1]
    /\ \A t1, t2 \in PeriodTimes :
          getPeriodKey(t1) = getPeriodKey(t2) <=> SamePeriod(DateOf(t1), DateOf(t2))
    /\ \A d1, d2 \in CivilDates :
          PeriodKeyOf(d1) = PeriodKeyOf(d2) <=> SamePeriod(d1, d2)
    /\ \A i \in DOMAIN questions :
          {k \in DOMAIN periodGroups(questions) :
              questions[i] \in Range(periodGroups(questions)[k])}
            = {getPeriodKey(questions[i].createdAt)}

\* a session over 2024年12月下半月, whose two questions are of the 16th and
\* the 31st, from a store that has a question of the 15th too
C17_Witness ==
    /\ ExamShown
    /\ PoolSize = 2
    /\ Len(questions) = 3
    /\ {review.examQuestions[1].createdAt, review.examQuestions[2].createdAt}
          = {DayMs, 16 * DayMs}
    /\ \E i \in DOMAIN questions : questions[i].createdAt = DayMs - 1

\* the session's copy of a pool question is the store's record of its id
CopiesAreStored ==
    \A i \in DOMAIN review.examQuestions :
        /\ Holders(questions, review.examQuestions[i].id) # {}
        /\ \A k \in Holders(questions, review.examQuestions[i].id) :
              questions[k] = review.examQuestions[i]

\* C18: while a session is on, every question of its pool is, field by
\* field, the stored record with the same id, whatever 查看解析, 上一题, 下一题
\* and mastery steps have been taken; so the record a step sends to
\* handleUpdateQuestion never carries an older masteryStatus, reviewCount or
\* lastReviewedAt than the store has.
C18_CopiesAreStored == ExamShown => CopiesAreStored

\* C18 holds in the sessions over a store without a repeated id.
C18_GivenUniqueIds == (ExamShown /\ IdsUnique(questions)) => CopiesAreStored

\* the late response of a classification requested for an image that was
\* given up, another image being in the form
LateResponse(img, r) ==
    AnalyzeImageResponse(img, r) /\ add.image # Null /\ add.image # img

\* C19: a classification response changes the form only of the image it was
\* requested for: the response that arrives for image A after A was given up
\* and B uploaded sets none of subject, category, subCategory, aiAnalysis and
\* correctResolution, and isAnalyzing stays true while B's classification is
\* still awaited.
C19_ResponseOnlyForItsImage ==
    [][\A img \in Images, r \in ClassificationResponses :
          LateResponse(img, r) =>
              /\ ClassifiedFields(add') = ClassifiedFields(add)
              /\ BagIn(ClassifyOp(add.image), pending) => add'.isAnalyzing]_vars

====
